---------------------------- MODULE Spec2Model ----------------------------
(***************************************************************************)
(* Wallet operation handlers of the Solana MCP server                      *)
(* (src/mastra/handlers/wallet.ts, its utilities and the tool wrappers).   *)
(*                                                                         *)
(* Process-wide state: currentNetwork, rpc, defaultPublicKey and           *)
(* defaultPrivateKey.  A handler runs synchronously up to its first await  *)
(* of a ledger RPC call, where it suspends (inflight) and later resumes    *)
(* with the outcome of the call.  Texts are sequences of tokens: a literal *)
(* of the code is one token, an interpolated value is another.             *)
(***************************************************************************)
EXTENDS Integers, Sequences, FiniteSets, Bags, TLC

\* ---------------------------------------------------------------- bounds
\* Number of handler invocations that may be suspended at an await at once.
MaxInflight == 1

\* ------------------------------------------------------- values and inputs
\* An absent optional field (undefined, null or the empty string: all falsy).
NULL == "null"

Networks == {"devnet", "mainnet"}

RPC_URLS == [devnet |-> "https://api.devnet.solana.com",
             mainnet |-> "https://api.mainnet-beta.solana.com"]

\* Address strings handed to the handlers: one well-formed, one not.
ValidAddrs == {"addrA"}
AddrInputs == {"addrA", "bad"}

\* Amounts are kept in tenths so that 1.5 is representable: -5, 0, 1.5, 1000.
AmountTenths == {-50, 0, 15, 10000}
IsInteger(a) == a % 10 = 0

\* Private-key strings.  Each names what bs58.decode makes of it: whether it
\* is base-58 at all, the decoded length, and whether the second half of a
\* 64-byte key is the public key of its first half.
KeyInputs == {"k32", "k64", "k64x", "k31", "kNot58"}
IsBase58(k) == k # "kNot58"
DecodedLen(k) ==
    CASE k = "k32" -> 32
      [] k = "k64" -> 64
      [] k = "k64x" -> 64
      [] k = "k31" -> 31
      [] OTHER -> 0 - 1
PubHalfMatches(k) == k = "k64"
\* The address of the keypair a key derives: every key here has the same seed.
PubOf(k) == "addrA"

\* Encoded messages / signed transactions: one that decodes, one that does not.
TxInputs == {"txOK", "txBad"}
\* RPC-URL overrides of send/check: absent, a usable URL, a string that is no URL.
UrlInputs == {NULL, "https://custom.rpc", "not-a-url"}
IsHttpUrl(u) == u # "not-a-url"
\* Network names handed to switch network.
NetworkInputs == {"devnet", "mainnet", "testnet"}
\* The startup secret: absent, a 32-byte key, a 64-byte key, not base-58.
EnvSecrets == {NULL, "k32", "k64", "kNot58"}

\* Outcomes of an awaited external call.
RpcOutcomes == {"value", "null", "throw"}

\* The input object of a handler; fields a handler does not read stay at rest.
NoInput == [publicKey |-> NULL, fromPublicKey |-> NULL, toPublicKey |-> NULL,
            amount |-> 0, address |-> NULL,
            privateKey |-> NULL, transaction |-> NULL, rpcUrl |-> NULL,
            network |-> NULL]

\* ------------------------------------------------------------ message text
NullPublicKeyText == <<"No public key provided and no default wallet configured. Set up the PRIVATE_KEY environment variable to use the default wallet.">>
NullPrivateKeyText == <<"No private key provided and no default wallet configured. Set up the PRIVATE_KEY environment variable to use the default wallet.">>
IntegerAmountText == <<"Invalid amount. Amount must be an integer number representing the amount of lamports to transfer.">>
PositiveAmountText == <<"Invalid amount. Amount must be greater than zero.">>
InvalidNetworkText == <<"Invalid network. Must be devnet or mainnet.">>
NotFoundText == <<"Transaction not found">>
KeyLengthMsg == "Invalid private key. Private key must be 32 or 64 bytes long."

\* Messages of faults raised by the runtime and the libraries.
RangeErrorMsg == "RangeError: the number cannot be converted to a BigInt because it is not an integer"
TypeErrorMsg == "TypeError: cannot read properties of null"
Base58Msg == "Non-base58 character"
KitKeyLengthMsg == "Expected private key of length 32"
UrlMsg == "Endpoint URL must start with http: or https:."
RpcFaultMsg == "rpc fault"
SignFaultMsg == "unknown signer"

\* The error prefix of the catch block of each operation.
Ops == {"getBalance", "getTokenAccounts", "getTokenBalance", "createTransaction",
        "signTransaction", "sendTransaction", "generateKeyPair", "importPrivateKey",
        "validateAddress", "checkTransaction", "switchNetwork", "getCurrentNetwork"}
ErrorPrefix(op) ==
    CASE op = "getBalance" -> "Error getting balance: "
      [] op = "getTokenAccounts" -> "Error getting token accounts: "
      [] op = "getTokenBalance" -> "Error getting token balance: "
      [] op = "createTransaction" -> "Error creating transaction: "
      [] op = "signTransaction" -> "Error signing transaction: "
      [] op = "sendTransaction" -> "Error sending transaction: "
      [] op = "generateKeyPair" -> "Error generating keypair: "
      [] op = "importPrivateKey" -> "Error importing private key: "
      [] op = "validateAddress" -> "Error validating address: "
      [] op = "checkTransaction" -> "Error checking transaction: "
      [] op = "switchNetwork" -> "Error switching network: "
      [] OTHER -> "Error getting current network: "

\* ------------------------------------------------------------------ state
VARIABLES
    PRIVATE_KEY,        \* process.env.PRIVATE_KEY, NULL when not set
    initPc,             \* where the module's start-up code stands
    currentNetwork,     \* the network selection
    rpc,                \* the endpoint of the client createSolanaRpc built
    defaultPublicKey,   \* NULL until the start-up derivation resolves
    defaultPrivateKey,  \* NULL until setDefaultKeyPair is entered
    inflight,           \* handler invocations suspended at their RPC await
    last,               \* the handler invocation that completed last
    lastSwitch          \* network named by the latest successful switch

vars == <<PRIVATE_KEY, initPc, currentNetwork, rpc, defaultPublicKey,
          defaultPrivateKey, inflight, last, lastSwitch>>

\* ------------------------------------------------ validation and formatting
createErrorResponse(message) ==
    [kind |-> "return", content |-> <<[type |-> "text", text |-> message]>>,
     isError |-> TRUE]

createSuccessResponse(message) ==
    [kind |-> "return", content |-> <<[type |-> "text", text |-> message]>>,
     isError |-> FALSE]

\* A fault that leaves a function as an exception.
Thrown(message) == [kind |-> "throw", message |-> message]

\* address() accepts a well-formed address and throws on anything else.
createAddress(addressString) ==
    IF addressString \in ValidAddrs
        THEN [addr |-> addressString, error |-> <<>>]
        ELSE [addr |-> NULL, error |-> <<"Invalid address: ", addressString>>]

\* Either the address (a string) or an error envelope.
validateAddress(addressString) ==
    LET r == createAddress(addressString) IN
    IF r.error # <<>>
        THEN [isString |-> FALSE, env |-> createErrorResponse(r.error)]
        ELSE [isString |-> TRUE, addr |-> r.addr]

\* Variant of createKeyPairFromPrivateKey: the 32-byte branch is missing.
createKeyPairFromPrivateKeyOnly64(privateKeyString) ==
    IF ~IsBase58(privateKeyString) THEN Thrown(<<Base58Msg>>)
    ELSE IF DecodedLen(privateKeyString) = 64 THEN
        IF PubHalfMatches(privateKeyString)
            THEN [kind |-> "keypair", publicKey |-> PubOf(privateKeyString)]
            ELSE Thrown(<<KeyLengthMsg, "Private key length: 64">>)
    ELSE Thrown(<<KeyLengthMsg>>)

\* The outcome of createKeyPairFromPrivateKey: a keypair or a thrown fault.
createKeyPairFromPrivateKey(privateKeyString) ==
    IF ~IsBase58(privateKeyString) THEN Thrown(<<Base58Msg>>)
    ELSE IF DecodedLen(privateKeyString) = 64 THEN
        IF PubHalfMatches(privateKeyString)
            THEN [kind |-> "keypair", publicKey |-> PubOf(privateKeyString)]
            ELSE Thrown(<<KeyLengthMsg, "Private key length: 64">>)
    ELSE IF DecodedLen(privateKeyString) = 32 THEN
        [kind |-> "keypair", publicKey |-> PubOf(privateKeyString)]
    ELSE Thrown(<<KeyLengthMsg>>)

\* createKeyPairSignerFromPrivateKeyBytes(bs58.decode(k)) of the library:
\* it takes a 32-byte private key and rejects every other length.
createKeyPairSignerFromPrivateKeyBytes(privateKey) ==
    IF ~IsBase58(privateKey) THEN Thrown(<<Base58Msg>>)
    ELSE IF DecodedLen(privateKey) # 32 THEN Thrown(<<KitKeyLengthMsg>>)
    ELSE [kind |-> "signer", address |-> PubOf(privateKey)]

\* ------------------------------------------------------------ the handlers
\* What the synchronous part of a handler comes to: an outcome, or a
\* suspension at the await of the one RPC call it has issued to target.
Done(out) == [suspend |-> FALSE, out |-> out, rpcCalls |-> 0, target |-> NULL]
Await(target) ==
    [suspend |-> TRUE, out |-> [kind |-> "pending"], rpcCalls |-> 1,
     target |-> target]

\* Variant of Caught: the catch block rethrows instead of wrapping.
CaughtRethrows(op, message) == Thrown(message)

\* catch (error) { return createErrorResponse(`Error ...: ${message}`) }
Caught(op, message) == createErrorResponse(<<ErrorPrefix(op)>> \o message)

\* Variant of nullPublicKeyError: built from the private-key message.
nullPublicKeyErrorSwapped == createErrorResponse(NullPrivateKeyText)

nullPublicKeyError == createErrorResponse(NullPublicKeyText)
nullPrivateKeyError == createErrorResponse(NullPrivateKeyText)

\* Variant of getBalanceHandler: the balance query is sent before the
\* address is validated.
getBalanceHandlerQueriesFirst(input) ==
    LET publicKey == IF input.publicKey # NULL THEN input.publicKey
                     ELSE defaultPublicKey
        publicKeyAddr == validateAddress(publicKey)
    IN  IF publicKey = NULL THEN Done(nullPublicKeyError)
        ELSE IF ~publicKeyAddr.isString
            THEN [suspend |-> FALSE, out |-> publicKeyAddr.env, rpcCalls |-> 1,
                  target |-> rpc]
        ELSE Await(rpc)

getBalanceHandler(input) ==
    LET publicKey == IF input.publicKey # NULL THEN input.publicKey
                     ELSE defaultPublicKey
        publicKeyAddr == validateAddress(publicKey)
    IN  IF publicKey = NULL THEN Done(nullPublicKeyError)
        ELSE IF ~publicKeyAddr.isString THEN Done(publicKeyAddr.env)
        ELSE Await(rpc)

getTokenAccountsHandler(input) ==
    LET publicKey == IF input.publicKey # NULL THEN input.publicKey
                     ELSE defaultPublicKey
        publicKeyAddr == validateAddress(publicKey)
    IN  IF publicKey = NULL THEN Done(nullPublicKeyError)
        ELSE IF ~publicKeyAddr.isString THEN Done(publicKeyAddr.env)
        ELSE Await(rpc)

getTokenBalanceHandler(input) ==
    LET tokenAccountAddr == validateAddress(input.address) IN
    IF ~tokenAccountAddr.isString THEN Done(tokenAccountAddr.env)
    ELSE Await(rpc)

createTransactionMessageHandler(input) ==
    LET fromPublicKey == IF input.fromPublicKey # NULL THEN input.fromPublicKey
                         ELSE defaultPublicKey
        fromPublicKeyAddr == validateAddress(fromPublicKey)
        toPublicKeyAddr == validateAddress(input.toPublicKey)
    IN  \* BigInt(amount) throws on a fraction and is falsy on zero
        IF ~IsInteger(input.amount)
            THEN Done(Caught("createTransaction", <<RangeErrorMsg>>))
        ELSE IF input.amount = 0
            THEN Done(createErrorResponse(IntegerAmountText))
        ELSE IF fromPublicKey = NULL THEN Done(nullPublicKeyError)
        ELSE IF ~fromPublicKeyAddr.isString THEN Done(fromPublicKeyAddr.env)
        ELSE IF ~toPublicKeyAddr.isString THEN Done(toPublicKeyAddr.env)
        ELSE IF input.amount <= 0
            THEN Done(createErrorResponse(PositiveAmountText))
        ELSE Await(rpc)

\* signFault: whether transaction.sign / serialize of the library throws.
signTransactionMessageHandler(input, signFault) ==
    LET privateKey == IF input.privateKey # NULL THEN input.privateKey
                      ELSE defaultPrivateKey
        keypair == createKeyPairFromPrivateKey(privateKey)
    IN  IF input.transaction # "txOK"
            THEN Done(Caught("signTransaction", <<Base58Msg>>))
        ELSE IF privateKey = NULL THEN Done(nullPrivateKeyError)
        ELSE IF keypair.kind = "throw"
            THEN Done(Caught("signTransaction", keypair.message))
        ELSE IF signFault
            THEN Done(Caught("signTransaction", <<SignFaultMsg>>))
        ELSE Done(createSuccessResponse(<<"Transaction signed: ", "signed">>))

\* Variant of sendTransactionHandler: input.rpcUrl is not consulted.
sendTransactionHandlerIgnoresOverride(input) ==
    LET rpcUrl == RPC_URLS[currentNetwork]
    IN  IF input.transaction # "txOK"
            THEN Done(Caught("sendTransaction", <<Base58Msg>>))
        ELSE IF ~IsHttpUrl(rpcUrl)
            THEN Done(Caught("sendTransaction", <<UrlMsg>>))
        ELSE Await(rpcUrl)

sendTransactionHandler(input) ==
    LET rpcUrl == IF input.rpcUrl # NULL THEN input.rpcUrl
                  ELSE RPC_URLS[currentNetwork]
    IN  IF input.transaction # "txOK"
            THEN Done(Caught("sendTransaction", <<Base58Msg>>))
        ELSE IF ~IsHttpUrl(rpcUrl)
            THEN Done(Caught("sendTransaction", <<UrlMsg>>))
        ELSE Await(rpcUrl)

checkTransactionHandler(input) ==
    LET rpcUrl == IF input.rpcUrl # NULL THEN input.rpcUrl
                  ELSE RPC_URLS[currentNetwork]
    IN  IF ~IsHttpUrl(rpcUrl)
            THEN Done(Caught("checkTransaction", <<UrlMsg>>))
        ELSE Await(rpcUrl)

generateKeyPairHandler(input) ==
    Done(createSuccessResponse(<<"Public key: ", "fresh public key",
                                 "Private key: ", "fresh private key">>))

importPrivateKeyHandler(input) ==
    LET signer == createKeyPairSignerFromPrivateKeyBytes(input.privateKey) IN
    IF signer.kind = "throw"
        THEN Done(Caught("importPrivateKey", signer.message))
        ELSE Done(createSuccessResponse(<<"Public key: ", signer.address>>))

validateAddressHandler(input) ==
    LET addressResult == validateAddress(input.address) IN
    IF addressResult.isString
        THEN Done(createSuccessResponse(<<"Address is valid: ", input.address>>))
        ELSE Done(addressResult.env)

\* Variant of switchNetwork: the client is rebuilt, the selection is not stored.
switchNetworkKeepsSelection(network) ==
    [currentNetwork |-> currentNetwork, rpc |-> RPC_URLS[network]]

\* The network selection and the client after switchNetwork(network).
switchNetwork(network) ==
    [currentNetwork |-> network, rpc |-> RPC_URLS[network]]

getCurrentNetwork == currentNetwork

\* Variant of switchNetworkHandler: the name is tested after the switch, and
\* a name without an endpoint gets the mainnet one.
switchNetworkHandlerSwitchesFirst(input) ==
    IF input.network \notin Networks
        THEN [out |-> createErrorResponse(InvalidNetworkText),
              sel |-> [currentNetwork |-> "mainnet", rpc |-> RPC_URLS["mainnet"]]]
        ELSE [out |-> createSuccessResponse(
                          <<"Successfully switched to ", input.network, " network.">>),
              sel |-> [currentNetwork |-> input.network,
                       rpc |-> RPC_URLS[input.network]]]

\* The envelope of switch network and the selection it leaves behind.
switchNetworkHandler(input) ==
    IF input.network \notin Networks
        THEN [out |-> createErrorResponse(InvalidNetworkText),
              sel |-> [currentNetwork |-> currentNetwork, rpc |-> rpc]]
        ELSE [out |-> createSuccessResponse(
                          <<"Successfully switched to ", input.network, " network.">>),
              sel |-> switchNetwork(input.network)]

getCurrentNetworkHandler(input) ==
    Done(createSuccessResponse(<<"Current network is ", getCurrentNetwork, ".">>))

\* Variant of checkTransactionFound: the null test is missing, so reading
\* signature.slot of null throws into the catch block.
checkTransactionFoundNoNullTest(outcome) ==
    IF outcome = "null" THEN Caught("checkTransaction", <<TypeErrorMsg>>)
    ELSE createSuccessResponse(<<"Transaction confirmed: ", "status">>)

\* checkTransactionHandler after getTransaction returned: if (!signature) ...
checkTransactionFound(outcome) ==
    IF outcome = "null" THEN createErrorResponse(NotFoundText)
    ELSE createSuccessResponse(<<"Transaction confirmed: ", "status">>)

\* The rest of a handler, run when its awaited RPC call settles.
HandlerResume(op, outcome) ==
    IF outcome = "throw" THEN Caught(op, <<RpcFaultMsg>>)
    ELSE IF op = "checkTransaction" THEN checkTransactionFound(outcome)
    ELSE IF op = "sendTransaction" THEN
        createSuccessResponse(<<"Transaction sent: ",
                                IF outcome = "null" THEN NULL ELSE "signature">>)
    ELSE IF outcome = "null" THEN Caught(op, <<TypeErrorMsg>>)
    ELSE IF op = "getBalance" THEN createSuccessResponse(<<"Balance: ", "lamports">>)
    ELSE IF op = "getTokenAccounts"
        THEN createSuccessResponse(<<"Token accounts: ", "pubkeys">>)
    ELSE IF op = "getTokenBalance"
        THEN createSuccessResponse(<<"Token balance: ", "uiAmount">>)
    ELSE createSuccessResponse(<<"Transaction Message created: ", "message">>)

\* Variant of ToolExecute: an error envelope is rendered with the prefix too.
ToolExecutePrefixesErrors(op, out) ==
    IF out.kind = "return" /\ ~out.isError THEN out.content[1].text
    ELSE IF out.kind = "return" THEN <<ErrorPrefix(op)>> \o out.content[1].text
    ELSE <<ErrorPrefix(op)>> \o out.message

\* execute of a tool: the text of the envelope, or the text of its own catch.
ToolExecute(op, out) ==
    IF out.kind = "return" THEN out.content[1].text
    ELSE <<ErrorPrefix(op)>> \o out.message

\* ------------------------------------------------------------- start-up
Init ==
    /\ PRIVATE_KEY \in EnvSecrets
    /\ initPc = "load"
    /\ currentNetwork = "devnet"
    /\ rpc = RPC_URLS["devnet"]
    /\ defaultPublicKey = NULL
    /\ defaultPrivateKey = NULL
    /\ inflight = EmptyBag
    /\ last = [op |-> "none", input |-> NoInput, out |-> [kind |-> "none"],
               rpcCalls |-> 0, target |-> NULL, rpcOutcome |-> "none"]
    /\ lastSwitch = "none"

\* Module evaluation: if (process.env.PRIVATE_KEY) setDefaultKeyPair(...),
\* which stores the private key and then awaits the derivation, unawaited
\* by its caller.
LoadModule ==
    /\ initPc = "load"
    /\ IF PRIVATE_KEY # NULL
          THEN /\ defaultPrivateKey' = PRIVATE_KEY
               /\ initPc' = "pending"
          ELSE /\ defaultPrivateKey' = defaultPrivateKey
               /\ initPc' = "ready"
    /\ UNCHANGED <<PRIVATE_KEY, currentNetwork, rpc, defaultPublicKey,
                   inflight, last, lastSwitch>>

\* The derivation resolves: the awaited address becomes the default public key.
SetDefaultKeyPairResolve ==
    /\ initPc = "pending"
    /\ createKeyPairSignerFromPrivateKeyBytes(PRIVATE_KEY).kind = "signer"
    /\ defaultPublicKey' = createKeyPairSignerFromPrivateKeyBytes(PRIVATE_KEY).address
    /\ initPc' = "ready"
    /\ UNCHANGED <<PRIVATE_KEY, currentNetwork, rpc, defaultPrivateKey,
                   inflight, last, lastSwitch>>

\* The derivation throws inside the async function: its promise rejects, and
\* no one handles the rejection (the try/catch around the call sees none).
\* The runtime either reports it and goes on or ends the process.
SetDefaultKeyPairReject ==
    /\ initPc = "pending"
    /\ createKeyPairSignerFromPrivateKeyBytes(PRIVATE_KEY).kind = "throw"
    /\ \E exits \in BOOLEAN : initPc' = IF exits THEN "crashed" ELSE "rejected"
    /\ UNCHANGED <<PRIVATE_KEY, currentNetwork, rpc, defaultPublicKey,
                   defaultPrivateKey, inflight, last, lastSwitch>>

\* A request can reach a handler once the module is evaluated.  A rejection
\* settles in the microtasks of the evaluation itself; a derivation that
\* goes through the crypto subsystem may still be pending.
HandlersMayRun ==
    IF initPc = "pending"
        THEN createKeyPairSignerFromPrivateKeyBytes(PRIVATE_KEY).kind = "signer"
        ELSE initPc \in {"ready", "rejected"}

\* ---------------------------------------------------------- the operations
\* A handler invocation up to its return or its first await.
Run(op, input, step) ==
    /\ HandlersMayRun
    /\ IF step.suspend
          THEN /\ BagCardinality(inflight) < MaxInflight
               /\ inflight' = inflight (+) SetToBag({[op |-> op, input |-> input,
                                                      rpcCalls |-> step.rpcCalls,
                                                      target |-> step.target]})
               /\ last' = last
          ELSE /\ inflight' = inflight
               /\ last' = [op |-> op, input |-> input, out |-> step.out,
                           rpcCalls |-> step.rpcCalls, target |-> step.target,
                           rpcOutcome |-> "none"]
    /\ UNCHANGED <<PRIVATE_KEY, initPc, currentNetwork, rpc, defaultPublicKey,
                   defaultPrivateKey, lastSwitch>>

GetBalance ==
    \E pk \in {NULL} \cup AddrInputs :
        LET input == [NoInput EXCEPT !.publicKey = pk] IN
        Run("getBalance", input, getBalanceHandler(input))

GetTokenAccounts ==
    \E pk \in {NULL} \cup AddrInputs :
        LET input == [NoInput EXCEPT !.publicKey = pk] IN
        Run("getTokenAccounts", input, getTokenAccountsHandler(input))

GetTokenBalance ==
    \E a \in AddrInputs :
        LET input == [NoInput EXCEPT !.address = a] IN
        Run("getTokenBalance", input, getTokenBalanceHandler(input))

CreateTransaction ==
    \E from \in {NULL} \cup AddrInputs, to \in AddrInputs, amount \in AmountTenths :
        LET input == [NoInput EXCEPT !.fromPublicKey = from, !.toPublicKey = to,
                                     !.amount = amount] IN
        Run("createTransaction", input, createTransactionMessageHandler(input))

SignTransaction ==
    \E tx \in TxInputs, k \in {NULL} \cup KeyInputs, signFault \in BOOLEAN :
        LET input == [NoInput EXCEPT !.transaction = tx, !.privateKey = k] IN
        Run("signTransaction", input, signTransactionMessageHandler(input, signFault))

SendTransaction ==
    \E tx \in TxInputs, url \in UrlInputs :
        LET input == [NoInput EXCEPT !.transaction = tx, !.rpcUrl = url] IN
        Run("sendTransaction", input, sendTransactionHandler(input))

CheckTransaction ==
    \E url \in UrlInputs :
        LET input == [NoInput EXCEPT !.rpcUrl = url] IN
        Run("checkTransaction", input, checkTransactionHandler(input))

GenerateKeyPair ==
    Run("generateKeyPair", NoInput, generateKeyPairHandler(NoInput))

ImportPrivateKey ==
    \E k \in KeyInputs :
        LET input == [NoInput EXCEPT !.privateKey = k] IN
        Run("importPrivateKey", input, importPrivateKeyHandler(input))

ValidateAddress ==
    \E a \in AddrInputs :
        LET input == [NoInput EXCEPT !.address = a] IN
        Run("validateAddress", input, validateAddressHandler(input))

SwitchNetwork ==
    \E n \in NetworkInputs :
        LET input == [NoInput EXCEPT !.network = n]
            r == switchNetworkHandler(input)
        IN  /\ HandlersMayRun
            /\ currentNetwork' = r.sel.currentNetwork
            /\ rpc' = r.sel.rpc
            /\ last' = [op |-> "switchNetwork", input |-> input, out |-> r.out,
                        rpcCalls |-> 0, target |-> NULL, rpcOutcome |-> "none"]
            /\ IF r.out.kind = "return" /\ ~r.out.isError
                  THEN lastSwitch' = n
                  ELSE lastSwitch' = lastSwitch
            /\ UNCHANGED <<PRIVATE_KEY, initPc, defaultPublicKey,
                           defaultPrivateKey, inflight>>

GetCurrentNetwork ==
    Run("getCurrentNetwork", NoInput, getCurrentNetworkHandler(NoInput))

\* Variant of Resume: the call is settled by the client of the moment, not
\* by the one it was issued on.
ResumeOnCurrentClient ==
    \E c \in BagToSet(inflight), outcome \in RpcOutcomes :
        /\ initPc # "crashed"
        /\ last' = [op |-> c.op, input |-> c.input,
                    out |-> HandlerResume(c.op, outcome),
                    rpcCalls |-> c.rpcCalls, target |-> rpc,
                    rpcOutcome |-> outcome]
        /\ inflight' = inflight (-) SetToBag({c})
        /\ UNCHANGED <<PRIVATE_KEY, initPc, currentNetwork, rpc, defaultPublicKey,
                       defaultPrivateKey, lastSwitch>>

\* A suspended handler resumes with the outcome of its RPC call and returns.
Resume ==
    \E c \in BagToSet(inflight), outcome \in RpcOutcomes :
        /\ initPc # "crashed"
        /\ last' = [op |-> c.op, input |-> c.input,
                    out |-> HandlerResume(c.op, outcome),
                    rpcCalls |-> c.rpcCalls, target |-> c.target,
                    rpcOutcome |-> outcome]
        /\ inflight' = inflight (-) SetToBag({c})
        /\ UNCHANGED <<PRIVATE_KEY, initPc, currentNetwork, rpc, defaultPublicKey,
                       defaultPrivateKey, lastSwitch>>

Next ==
    \/ LoadModule
    \/ SetDefaultKeyPairResolve
    \/ SetDefaultKeyPairReject
    \/ GetBalance
    \/ GetTokenAccounts
    \/ GetTokenBalance
    \/ CreateTransaction
    \/ SignTransaction
    \/ SendTransaction
    \/ CheckTransaction
    \/ GenerateKeyPair
    \/ ImportPrivateKey
    \/ ValidateAddress
    \/ SwitchNetwork
    \/ GetCurrentNetwork
    \/ Resume

Spec == Init /\ [][Next]_vars

\* ------------------------------------------------------------ the claims
TextOf(out) == out.content[1].text
IsEnvelope(out) ==
    /\ out.kind = "return"
    /\ Len(out.content) = 1
    /\ out.content[1].type = "text"
    /\ out.isError \in BOOLEAN

\* C1: every handler invocation that has completed returned an envelope with
\* exactly one text block and a boolean isError, never a fault; and every
\* suspended invocation returns such an envelope on each outcome of the call
\* it awaits (value, null, exception).
C1_EveryHandlerReturnsEnvelope ==
    /\ last.op # "none" => IsEnvelope(last.out)
    /\ \A c \in BagToSet(inflight), outcome \in RpcOutcomes :
           IsEnvelope(HandlerResume(c.op, outcome))

\* C1 witness: create transaction resumed with a null blockhash result and
\* returned the caught TypeError as an error envelope.
C1_Witness ==
    /\ last.op = "createTransaction"
    /\ last.rpcOutcome = "null"
    /\ IsEnvelope(last.out)
    /\ last.out.isError
    /\ TextOf(last.out) = <<"Error creating transaction: ", TypeErrorMsg>>

\* C2 (as claimed): in create transaction with a resolved from-address and
\* valid addresses, amounts 0 and -5 return the greater-than-zero message,
\* amount 1.5 returns the integer message, amount 1000 reaches the RPC call.
C2_AmountMessagesAsClaimed ==
    (/\ last.op = "createTransaction"
     /\ last.input.fromPublicKey \in ValidAddrs
     /\ last.input.toPublicKey \in ValidAddrs)
    => /\ last.input.amount \in {0, -50} =>
              (last.out.isError /\ TextOf(last.out) = PositiveAmountText)
       /\ last.input.amount = 15 =>
              (last.out.isError /\ TextOf(last.out) = IntegerAmountText)
       /\ last.input.amount = 10000 => last.rpcCalls = 1

\* C3: create transaction with a valid to-address and a positive integer
\* amount, no from-address and no default public key returns exactly the
\* missing-public-key error envelope and has issued no RPC call.
C3_MissingCredentialNoRpc ==
    defaultPublicKey = NULL =>
        /\ \A c \in BagToSet(inflight) :
               ~(c.op = "createTransaction" /\ c.input.fromPublicKey = NULL)
        /\ (/\ last.op = "createTransaction"
            /\ last.input.fromPublicKey = NULL
            /\ last.input.toPublicKey \in ValidAddrs
            /\ IsInteger(last.input.amount)
            /\ last.input.amount > 0)
           => /\ IsEnvelope(last.out)
              /\ last.out.isError
              /\ TextOf(last.out) = NullPublicKeyText
              /\ last.rpcCalls = 0

\* C3 witness: such a call has returned the missing-public-key envelope.
C3_Witness ==
    /\ defaultPublicKey = NULL
    /\ last.op = "createTransaction"
    /\ last.input.fromPublicKey = NULL
    /\ last.input.toPublicKey = "addrA"
    /\ last.input.amount = 10000
    /\ TextOf(last.out) = NullPublicKeyText
    /\ last.rpcCalls = 0

\* C4: the selection starts as devnet and is always the network named by the
\* latest successful switch; the client is the endpoint of the selection; get
\* current network reports the selection and issues no RPC call.
C4_NetworkFollowsLastSwitch ==
    /\ lastSwitch = "none" => currentNetwork = "devnet"
    /\ lastSwitch # "none" => currentNetwork = lastSwitch
    /\ rpc = RPC_URLS[currentNetwork]
    /\ last.op = "getCurrentNetwork" =>
           /\ last.out.kind = "return"
           /\ ~last.out.isError
           /\ TextOf(last.out) = <<"Current network is ", currentNetwork, ".">>
           /\ currentNetwork = (IF lastSwitch = "none" THEN "devnet" ELSE lastSwitch)
           /\ last.rpcCalls = 0

\* C4 witness: devnet -> mainnet -> devnet.  A balance query issued while on
\* mainnet is still suspended; the selection was switched back and get
\* current network has reported devnet with the initial endpoint restored.
C4_Witness ==
    /\ lastSwitch = "devnet"
    /\ currentNetwork = "devnet"
    /\ rpc = "https://api.devnet.solana.com"
    /\ last.op = "getCurrentNetwork"
    /\ TextOf(last.out) = <<"Current network is ", "devnet", ".">>
    /\ \E c \in BagToSet(inflight) :
           c.op = "getBalance" /\ c.target = RPC_URLS["mainnet"]

\* The start-up secret is one the derivation rejects.
MalformedSecret ==
    /\ PRIVATE_KEY # NULL
    /\ createKeyPairSignerFromPrivateKeyBytes(PRIVATE_KEY).kind = "throw"

\* The operations that fall back to the default keypair, called without a key.
UsesDefaultKey(call) ==
    \/ call.op \in {"getBalance", "getTokenAccounts"} /\ call.input.publicKey = NULL
    \/ call.op = "createTransaction" /\ call.input.fromPublicKey = NULL
    \/ call.op = "signTransaction" /\ call.input.privateKey = NULL

\* C5 (as claimed): with the secret absent or malformed both halves of the
\* default keypair stay null, and every operation that needs a key and is
\* given none fails.
C5_BadSecretLeavesKeypairUnset ==
    (PRIVATE_KEY = NULL \/ MalformedSecret) =>
        /\ defaultPrivateKey = NULL
        /\ defaultPublicKey = NULL
        /\ (last.op # "none" /\ UsesDefaultKey(last)) => last.out.isError

\* C6 (as claimed): whenever the handler outcome is an error, the text the
\* tool returns starts with the operation's "Error {verb}: " prefix.
C6_ErrorsArePrefixedAsClaimed ==
    (last.op # "none" /\ (last.out.kind = "throw" \/ last.out.isError)) =>
        ToolExecute(last.op, last.out)[1] = ErrorPrefix(last.op)

\* The error texts the handlers return as literals, outside a catch block.
IsLiteralError(text) ==
    \/ text \in {NullPublicKeyText, NullPrivateKeyText, IntegerAmountText,
                 PositiveAmountText, InvalidNetworkText, NotFoundText}
    \/ text[1] = "Invalid address: "

\* C6 (amended): the tool returns the envelope's text unchanged whatever
\* isError is; an error text carries the prefix exactly when it comes from a
\* catch block, the literal validation, missing-credential and not-found
\* messages carry none, and no success text carries it.
C6_ToolReturnsEnvelopeText ==
    last.op # "none" =>
        LET text == ToolExecute(last.op, last.out) IN
        /\ last.out.kind = "return"
        /\ text = TextOf(last.out)
        /\ last.out.isError =>
               (text[1] = ErrorPrefix(last.op)) # IsLiteralError(text)
        /\ ~last.out.isError => text[1] # ErrorPrefix(last.op)

\* C6 witness: an error envelope reaches the tool's caller without a prefix.
C6_Witness ==
    /\ last.op = "validateAddress"
    /\ last.out.isError
    /\ ToolExecute(last.op, last.out) = <<"Invalid address: ", "bad">>

\* C7: check transaction whose status query was issued returns the error
\* envelope 'Transaction not found' on a null result, the error envelope
\* 'Error checking transaction: ' plus the message on a thrown fault, and a
\* success envelope on any other result.
C7_NotFoundIsDistinct ==
    (last.op = "checkTransaction" /\ last.rpcCalls = 1) =>
        /\ IsEnvelope(last.out)
        /\ last.rpcOutcome = "null" =>
               (last.out.isError /\ TextOf(last.out) = <<"Transaction not found">>)
        /\ last.rpcOutcome = "throw" =>
               /\ last.out.isError
               /\ TextOf(last.out) = <<"Error checking transaction: ", RpcFaultMsg>>
        /\ last.rpcOutcome = "value" => ~last.out.isError

\* C7 witness: the status query returned null and the handler said not found.
C7_Witness ==
    /\ last.op = "checkTransaction"
    /\ last.rpcOutcome = "null"
    /\ last.out.isError
    /\ TextOf(last.out) = NotFoundText

\* The private key an invocation works with: the explicit one, else the default.
KeyOf(call) ==
    IF call.input.privateKey # NULL THEN call.input.privateKey ELSE defaultPrivateKey

\* The text reports a fault of the key itself.
IsKeyFault(text) ==
    Len(text) >= 2 /\ text[2] \in {KeyLengthMsg, KitKeyLengthMsg, Base58Msg}

\* An invocation of sign transaction or import private key that got as far as
\* deriving a keypair from a base-58 key.
DerivesKey(call) ==
    /\ call.op \in {"signTransaction", "importPrivateKey"}
    /\ call.op = "signTransaction" => call.input.transaction = "txOK"
    /\ KeyOf(call) # NULL
    /\ IsBase58(KeyOf(call))

\* C8 (as claimed): in sign transaction and import private key alike, a
\* base-58 key of decoded length other than 32 or 64 fails with the
\* length-specific error, and one of length 32 or 64 derives a keypair.
C8_DerivationByLengthAsClaimed ==
    DerivesKey(last) =>
        IF DecodedLen(KeyOf(last)) \in {32, 64}
            THEN ~IsKeyFault(TextOf(last.out))
            ELSE /\ last.out.isError
                 /\ TextOf(last.out) = <<ErrorPrefix(last.op), KeyLengthMsg>>

\* C8 (amended): createKeyPairFromPrivateKey, which only sign transaction
\* uses, fails with exactly the length-specific error for a decoded length
\* other than 32 or 64, derives a keypair for 32 bytes, and for 64 bytes
\* derives one unless the signing primitive rejects the bytes, when the error
\* starts with the same sentence.  Import private key derives through the
\* library alone: it succeeds for 32 bytes only, reporting the address, and
\* otherwise reports the library's own message.  Each result is a function of
\* the key.
C8_SignDerivationByLength ==
    /\ (DerivesKey(last) /\ last.op = "signTransaction") =>
           LET k == KeyOf(last)
               text == TextOf(last.out)
           IN  /\ IsEnvelope(last.out)
               /\ DecodedLen(k) \notin {32, 64} =>
                      (last.out.isError /\ text = <<ErrorPrefix(last.op), KeyLengthMsg>>)
               /\ DecodedLen(k) = 32 => ~IsKeyFault(text)
               /\ (DecodedLen(k) = 64 /\ PubHalfMatches(k)) => ~IsKeyFault(text)
               /\ (DecodedLen(k) = 64 /\ ~PubHalfMatches(k)) =>
                      /\ last.out.isError
                      /\ SubSeq(text, 1, 2) = <<ErrorPrefix(last.op), KeyLengthMsg>>
    /\ (DerivesKey(last) /\ last.op = "importPrivateKey") =>
           LET k == KeyOf(last) IN
           IF DecodedLen(k) = 32
               THEN /\ ~last.out.isError
                    /\ TextOf(last.out) = <<"Public key: ", PubOf(k)>>
               ELSE /\ last.out.isError
                    /\ TextOf(last.out) = <<ErrorPrefix(last.op), KitKeyLengthMsg>>

\* C8 witness: sign transaction with a 31-byte key returned the length error.
C8_Witness ==
    /\ last.op = "signTransaction"
    /\ last.input.transaction = "txOK"
    /\ last.input.privateKey = "k31"
    /\ last.out.isError
    /\ TextOf(last.out) = <<"Error signing transaction: ", KeyLengthMsg>>

\* C9: a step changes the network selection or the client only if it is a
\* switch network call that returned success for the network now selected;
\* and no handler step (any step after start-up) changes the default keypair.
C9_OnlySwitchChangesNetwork ==
    [][/\ (currentNetwork' # currentNetwork \/ rpc' # rpc) =>
              /\ last'.op = "switchNetwork"
              /\ last'.out.kind = "return"
              /\ ~last'.out.isError
              /\ last'.input.network = currentNetwork'
              /\ rpc' = RPC_URLS[currentNetwork']
       /\ initPc' = initPc =>
              /\ defaultPublicKey' = defaultPublicKey
              /\ defaultPrivateKey' = defaultPrivateKey
              /\ PRIVATE_KEY' = PRIVATE_KEY]_vars

\* C9 witness: a switch to an invalid name was rejected while mainnet was
\* selected, and mainnet and its client are still in place.
C9_Witness ==
    /\ last.op = "switchNetwork"
    /\ last.input.network = "testnet"
    /\ last.out.isError
    /\ currentNetwork = "mainnet"
    /\ rpc = RPC_URLS["mainnet"]

\* The text of a validation error or of a missing-credential error.
IsValidationError(text) ==
    \/ text \in {NullPublicKeyText, NullPrivateKeyText, IntegerAmountText,
                 PositiveAmountText, InvalidNetworkText}
    \/ text[1] = "Invalid address: "
    \/ Len(text) >= 2 /\ text[2] \in {KeyLengthMsg, KitKeyLengthMsg, RangeErrorMsg}

\* C10: a handler that returned a validation error or a missing-credential
\* error had issued no RPC call.
C10_ValidationBeforeRpc ==
    (last.op # "none" /\ last.out.kind = "return" /\ last.out.isError
        /\ IsValidationError(TextOf(last.out)))
    => (last.rpcCalls = 0 /\ last.target = NULL /\ last.rpcOutcome = "none")

\* C10 witness: create transaction rejected a negative amount, both addresses
\* being valid, without an RPC call.
C10_Witness ==
    /\ last.op = "createTransaction"
    /\ last.input.fromPublicKey = "addrA"
    /\ last.input.toPublicKey = "addrA"
    /\ last.input.amount = -50
    /\ last.out.isError
    /\ TextOf(last.out) = PositiveAmountText
    /\ last.rpcCalls = 0

\* C11 (as claimed): the checks run in the order credential, addresses,
\* amount.  Create transaction without a from-address and without a default
\* public key, and sign transaction without a private key and without a
\* default one, return the missing-credential envelope whatever the other
\* arguments are; and create transaction with a resolved from-address, an
\* invalid address and an invalid amount reports the address.
C11_CheckOrderAsClaimed ==
    /\ (/\ last.op = "createTransaction"
        /\ last.input.fromPublicKey = NULL
        /\ defaultPublicKey = NULL)
       => (last.out.isError /\ TextOf(last.out) = NullPublicKeyText)
    /\ (/\ last.op = "signTransaction"
        /\ last.input.privateKey = NULL
        /\ defaultPrivateKey = NULL)
       => (last.out.isError /\ TextOf(last.out) = NullPrivateKeyText)
    /\ (/\ last.op = "createTransaction"
        /\ last.input.fromPublicKey # NULL
        /\ (last.input.fromPublicKey \notin ValidAddrs
               \/ last.input.toPublicKey \notin ValidAddrs)
        /\ (~IsInteger(last.input.amount) \/ last.input.amount <= 0))
       => (last.out.isError /\ TextOf(last.out)[1] = "Invalid address: ")

\* Some handler has been invoked.
HandlerStarted == last.op # "none" \/ BagCardinality(inflight) > 0

\* The private half of the default keypair is set and the public half is not.
HalfInitialised == defaultPrivateKey # NULL /\ defaultPublicKey = NULL

\* C12 (as claimed): the default keypair is initialised before any handler
\* runs: once a handler has been invoked the keypair is never half
\* initialised, and from then on neither of its fields changes.
C12_KeypairReadyBeforeHandlersAsClaimed ==
    [][/\ HandlerStarted' => ~HalfInitialised'
       /\ HandlerStarted =>
              /\ defaultPublicKey' = defaultPublicKey
              /\ defaultPrivateKey' = defaultPrivateKey]_vars

\* C13: no step, a switch of network included, drops or retargets a suspended
\* RPC call: a call leaves inflight only by settling, and its handler then
\* returns an envelope for the call as issued, on the endpoint it was issued
\* to, whatever the network selection has become meanwhile.
C13_InflightCallOutlivesSwitch ==
    [][\A c \in BagToSet(inflight) :
           \/ CopiesIn(c, inflight') >= CopiesIn(c, inflight)
           \/ /\ last'.op = c.op
              /\ last'.input = c.input
              /\ last'.target = c.target
              /\ last'.rpcCalls = c.rpcCalls
              /\ last'.rpcOutcome \in RpcOutcomes
              /\ IsEnvelope(last'.out)]_vars

\* C13 witness: a balance query issued on the devnet client is still in
\* flight, the selection is mainnet with its own client, and get current
\* network has already reported mainnet.
C13_Witness ==
    /\ currentNetwork = "mainnet"
    /\ rpc = RPC_URLS["mainnet"]
    /\ last.op = "getCurrentNetwork"
    /\ TextOf(last.out) = <<"Current network is ", "mainnet", ".">>
    /\ \E c \in BagToSet(inflight) :
           c.op = "getBalance" /\ c.target = RPC_URLS["devnet"]

\* The operations whose input carries an RPC-URL override.
AcceptsRpcUrl(op) == op \in {"sendTransaction", "checkTransaction"}

\* C14: a step that issues an RPC call issues exactly one, to the explicit
\* override if the operation is send or check transaction and one is given,
\* and otherwise to the endpoint of the network selected at that step; the
\* issuing step is the invocation itself and switches nothing; only send and
\* check transaction carry an override; and a completed invocation has issued
\* at most one call.
C14_OneTargetFixedAtInvocation ==
    [][/\ \A c \in BagToSet(inflight') :
              CopiesIn(c, inflight') > CopiesIn(c, inflight) =>
                  /\ c.rpcCalls = 1
                  /\ c.target = (IF AcceptsRpcUrl(c.op) /\ c.input.rpcUrl # NULL
                                    THEN c.input.rpcUrl
                                    ELSE RPC_URLS[currentNetwork])
                  /\ c.input.rpcUrl # NULL => AcceptsRpcUrl(c.op)
                  /\ currentNetwork' = currentNetwork
                  /\ rpc' = rpc
       /\ last'.rpcCalls \in {0, 1}
       /\ (last'.rpcCalls = 0) = (last'.target = NULL)]_vars

\* C14 witness: send transaction with an override is in flight on the
\* override while mainnet is selected.
C14_Witness ==
    /\ currentNetwork = "mainnet"
    /\ \E c \in BagToSet(inflight) :
           /\ c.op = "sendTransaction"
           /\ c.input.rpcUrl = "https://custom.rpc"
           /\ c.target = "https://custom.rpc"
           /\ c.rpcCalls = 1

=============================================================================
